---- MODULE Spec2Model ----
(***************************************************************************)
(* Orchestration and resilience core of the agentic podcast generator:     *)
(*   - retry_with_backoff            (src/utils/retry.py)                  *)
(*   - CircuitBreaker                (src/utils/retry.py)                  *)
(*   - MasterAgent / BaseAgent and the session record store                *)
(*     (src/agents/master_agent.py, src/agents/base_agent.py,              *)
(*      src/database/connection.py)                                        *)
(* Each component has its own specification (SpecRetry, SpecBreaker,       *)
(* SpecOrch); the variables of the other components stay at their initial  *)
(* values.                                                                 *)
(***************************************************************************)
EXTENDS Integers, Sequences, FiniteSets, TLC

VARIABLES
    \* ---- retry_with_backoff.wrapper (one wrapped call)
    max_retries,      \* decorator argument
    exceptions,       \* decorator argument: the retryable allow-list (set of kinds)
    attempt,          \* loop variable of `for attempt in range(max_retries + 1)`
    last_exception,   \* local of the wrapper
    rpc,              \* position of the wrapper: "try", "sleep", "returned", "raised"
    callLog,          \* outcome of every invocation of the wrapped operation, in order
    sleepLog,         \* the attempt index before each asyncio.sleep, in order
    r_raised,         \* the exception the wrapper raised (NoExc when none)
    base_delay,       \* decorator argument (seconds)
    exponential_base, \* decorator argument
    max_delay,        \* decorator argument (seconds)
    jitter,           \* decorator argument
    delay,            \* local of the wrapper: the value passed to sleep, in 1/Unit seconds
    delayLog,         \* the delays computed before jitter (seconds), in order
    \* ---- retry_sync_with_backoff.wrapper, given the same arguments and replaying
    \*      the outcomes in callLog
    sync_attempt,
    sync_last_exception,
    sync_rpc,
    sync_callLog,
    sync_delay,
    sync_delayLog,
    sync_raised,
    \* ---- BaseAgent.call_openrouter -> OpenRouterClient.chat_completion (one call)
    config_max_retries, \* config.max_retries, the argument of both decorators
    openrouter,       \* BaseAgent.openrouter is set (not None)
    client_session,   \* OpenRouterClient.session: "None", or the ClientSession, "open" or "closed"
    ctx,              \* the agent's async context: "new", "entered" or "exited"
    outer_attempt,    \* loop variable of the wrapper around call_openrouter
    outer_last,       \* its last_exception
    inner_attempt,    \* loop variable of the wrapper around chat_completion
    inner_last,       \* its last_exception
    npc,              \* position of the call
    requests,         \* number of HTTP requests sent (session.post)
    bodies,           \* number of times the body of call_openrouter ran
    failureKinds,     \* the kinds of the failures the call has met
    n_raised,         \* the exception call_openrouter raised (NoExc when none)
    \* ---- CircuitBreaker
    failure_threshold,
    recovery_timeout,
    failure_count,
    last_failure_time,
    state,
    now,              \* datetime.utcnow()
    inflight,         \* calls past _can_attempt and awaiting func: call id -> state at admission
    hist,             \* outcomes recorded by completed calls, in completion order
    attempts,         \* number of cb.call(...) made
    rejected,         \* number of calls that raised "Circuit breaker is OPEN"
    invocations,      \* number of times func was invoked
    \* ---- MasterAgent, its sub-agents and the session record store
    store,            \* Session rows: id -> record (status NoStatus when the row does not exist)
    agentLog,         \* AgentLog rows of the current run: agent -> its actions, in insertion order
    dbclock,          \* datetime.utcnow() as read by the store
    session_id,       \* MasterAgent.session_id (an attribute: it outlives a run)
    pc,               \* position of the orchestrator
    entry,            \* the entry point of the current run
    resume_id,        \* the session_id argument of the current run (0 for None)
    wpc,              \* position of each sub-agent's execute_with_logging
    woutcome,         \* what each sub-agent's coroutine ended with
    wcalls,           \* call_openrouter calls each sub-agent's execute made before it ended
    missing_keys,     \* the keys named by the ValueError of each sub-agent's validate_input
    results,          \* the `results` dict of the fan-in
    o_raised,         \* the exception the run raised (NoExc when none)
    o_returned,       \* the dict the run returned (NoResult when none)
    runs,             \* number of runs started on this MasterAgent
    run_session,      \* the session the current run works for (0 when none exists)
    snapshot,         \* that session's row as it was when the run started
    statusLog,        \* the update_session_status calls of the current run, in order
    doneOrder,        \* the sub-agents of the current run in the order their coroutines ended
    \* ---- AgentCommunication
    message_queue,    \* AgentCommunication.message_queue
    utcnow,           \* datetime.utcnow(), in units of 1/TicksPerMs millisecond
    sentLog,          \* the send_message calls made: the id each returned and its recipient
    times_returned,   \* how many receive_messages calls returned each sent message
    receives,         \* number of receive_messages calls made
    cleared,          \* the messages clear_messages removed from the queue
    c_returned,       \* the call made last: its operation, its argument, what it returned
    cpc               \* "ready" when the AgentCommunication object is in use

svars == <<sync_attempt, sync_last_exception, sync_rpc, sync_callLog, sync_delay,
           sync_delayLog, sync_raised>>
rvars == <<max_retries, exceptions, attempt, last_exception, rpc, callLog, sleepLog, r_raised,
           base_delay, exponential_base, max_delay, jitter, delay, delayLog, svars>>
bvars == <<failure_threshold, recovery_timeout, failure_count, last_failure_time, state,
           now, inflight, hist, attempts, rejected, invocations>>
ovars == <<store, agentLog, dbclock, session_id, pc, entry, resume_id, wpc, woutcome,
           wcalls, missing_keys, results, o_raised, o_returned, runs, run_session, snapshot, statusLog,
           doneOrder>>
nvars == <<config_max_retries, openrouter, client_session, ctx, outer_attempt, outer_last,
           inner_attempt, inner_last, npc, requests, bodies, failureKinds, n_raised>>
cvars == <<message_queue, utcnow, sentLog, times_returned, receives, cleared, c_returned,
           cpc>>
vars == <<rvars, bvars, ovars, nvars, cvars>>

\* ------------------------------------------------------------------ bounds
MaxRetries == 4
MaxConfigRetries == 3
RandomSteps == 2
MaxThreshold == 3
MaxTimeout == 2
MaxTime == 4
MaxCalls == 4
MaxInflight == 2
MaxRuns == 2
MaxSends == 2
MaxReceives == 2
MaxClock == 2
\* clock readings per millisecond
TicksPerMs == 2

\* ------------------------------------------------------------------ exceptions
\* An exception value: its class, who raised it and at which invocation.
Exc(kind, by, n) == [kind |-> kind, by |-> by, n |-> n]
NoExc == Exc("None", "none", 0)

\* ======================================================================
\* retry_with_backoff
\* ======================================================================
Kinds == {"ValueError", "TypeError", "ConnectionError"}

\* `except Exception as e` in place of `except exceptions as e`: every kind is caught
RetryableAll(kind, allow) == TRUE
\* `except exceptions as e`: the clause matches the kinds of the allow-list
Retryable(kind, allow) == kind \in allow

\* `last_exception = e` keeps the first captured exception
LastExceptionFirst(prev, e) == IF prev = NoExc THEN e ELSE prev
\* `last_exception = e`
LastException(prev, e) == e

\* `if attempt == max_retries` that never breaks out of the loop
IsFinalAttemptNever(att, maxr) == FALSE
\* `if attempt == max_retries: ... break`
IsFinalAttempt(a, R) == a = R

\* ---- delays. The decorator arguments are floats; the model draws them from
\* whole numbers of seconds. random.random() takes the values r / RandomSteps for
\* r in 0 .. RandomSteps - 1, and a value passed to sleep is kept as a whole number
\* of 1/Unit seconds, which makes the jittered products exact.
BaseDelays == {1, 2}
ExponentialBases == {2, 3}
MaxDelays == {4, 60}
RandomDraws == 0..(RandomSteps - 1)
Unit == 2 * RandomSteps

Min(x, y) == IF x <= y THEN x ELSE y

\* the delay without the cap of max_delay
BackoffUncapped(b, e, k, m) == b * e^k
\* `delay = min(base_delay * (exponential_base ** attempt), max_delay)`
Backoff(b, e, k, m) == Min(b * e^k, m)

\* `if jitter: delay = delay * (0.5 + random.random() * 0.5)`, for the draw
\* r / RandomSteps; the result in 1/Unit seconds
Jittered(u, jit, r) == IF jit THEN u * (RandomSteps + r) ELSE u * Unit

\* ---- retry_sync_with_backoff: the same statements of its own wrapper
SyncRetryable(kind, allow) == kind \in allow
SyncLastException(prev, e) == e
\* `if attempt == max_retries` that lets one more iteration through
SyncIsFinalAttemptLate(a, R) == a = R + 1
SyncIsFinalAttempt(a, R) == a = R
SyncBackoff(b, e, k, m) == Min(b * e^k, m)
SyncJittered(u, jit, r) == IF jit THEN u * (RandomSteps + r) ELSE u * Unit

InitRetryVars ==
    /\ max_retries \in 0..MaxRetries
    /\ exceptions \in SUBSET Kinds
    /\ base_delay \in BaseDelays
    /\ exponential_base \in ExponentialBases
    /\ max_delay \in MaxDelays
    /\ jitter \in BOOLEAN
    /\ attempt = 0
    /\ last_exception = NoExc
    /\ rpc = "try"
    /\ callLog = <<>>
    /\ sleepLog = <<>>
    /\ r_raised = NoExc
    /\ delay = 0
    /\ delayLog = <<>>

\* the synchronous wrapper is called with the same arguments
InitSyncVars ==
    /\ sync_attempt = 0
    /\ sync_last_exception = NoExc
    /\ sync_rpc = "try"
    /\ sync_callLog = <<>>
    /\ sync_delay = 0
    /\ sync_delayLog = <<>>
    /\ sync_raised = NoExc

IdleSyncVars ==
    /\ sync_attempt = 0
    /\ sync_last_exception = NoExc
    /\ sync_rpc = "idle"
    /\ sync_callLog = <<>>
    /\ sync_delay = 0
    /\ sync_delayLog = <<>>
    /\ sync_raised = NoExc

IdleRetryVars ==
    /\ max_retries = 0
    /\ exceptions = {}
    /\ base_delay = 1
    /\ exponential_base = 2
    /\ max_delay = 60
    /\ jitter = TRUE
    /\ attempt = 0
    /\ last_exception = NoExc
    /\ rpc = "idle"
    /\ callLog = <<>>
    /\ sleepLog = <<>>
    /\ r_raised = NoExc
    /\ delay = 0
    /\ delayLog = <<>>
    /\ IdleSyncVars

params == <<max_retries, exceptions, base_delay, exponential_base, max_delay, jitter>>

\* One iteration of the loop up to its first suspension: `await func()` returns.
RetryAttemptOk ==
    /\ rpc = "try"
    /\ attempt <= max_retries
    /\ callLog' = Append(callLog, "ok")
    /\ rpc' = "returned"
    /\ UNCHANGED <<params, attempt, last_exception, sleepLog, r_raised, delay, delayLog,
                   svars>>

\* One iteration of the loop: `await func()` raises an exception of class `kind`;
\* when the wrapper retries, it computes the delay and suspends in asyncio.sleep.
RetryAttemptFail(kind) ==
    /\ rpc = "try"
    /\ attempt <= max_retries
    /\ callLog' = Append(callLog, kind)
    /\ LET e == Exc(kind, "func", Len(callLog) + 1) IN
       IF Retryable(kind, exceptions)
       THEN /\ last_exception' = LastException(last_exception, e)
            /\ IF IsFinalAttempt(attempt, max_retries)
               THEN \* break, then `raise last_exception`
                    /\ rpc' = "raised"
                    /\ r_raised' = last_exception'
                    /\ UNCHANGED <<delay, delayLog>>
               ELSE /\ rpc' = "sleep"
                    /\ LET u == Backoff(base_delay, exponential_base, attempt, max_delay)
                       IN /\ delayLog' = Append(delayLog, u)
                          /\ \E r \in RandomDraws : delay' = Jittered(u, jitter, r)
                    /\ UNCHANGED r_raised
       ELSE \* not caught by `except exceptions`: propagates out of the wrapper
            /\ rpc' = "raised"
            /\ r_raised' = e
            /\ UNCHANGED <<last_exception, delay, delayLog>>
    /\ UNCHANGED <<params, attempt, sleepLog, svars>>

\* `await asyncio.sleep(delay)` returns and the loop takes its next index; when the
\* range is exhausted the loop ends and `raise last_exception` runs.
RetrySleep ==
    /\ rpc = "sleep"
    /\ sleepLog' = Append(sleepLog, attempt)
    /\ attempt' = attempt + 1
    /\ IF attempt + 1 <= max_retries
       THEN rpc' = "try" /\ UNCHANGED r_raised
       ELSE rpc' = "raised" /\ r_raised' = last_exception
    /\ UNCHANGED <<params, last_exception, callLog, delay, delayLog, svars>>

aframe == <<params, attempt, last_exception, rpc, callLog, sleepLog, r_raised, delay,
            delayLog>>

\* the outcome the wrapped operation gives the synchronous wrapper's next invocation
SyncNextOutcome == callLog[Len(sync_callLog) + 1]

\* retry_sync_with_backoff: `result = func(*args, **kwargs)` returns
SyncAttemptOk ==
    /\ sync_rpc = "try"
    /\ sync_attempt <= max_retries
    /\ Len(sync_callLog) < Len(callLog)
    /\ SyncNextOutcome = "ok"
    /\ sync_callLog' = Append(sync_callLog, "ok")
    /\ sync_rpc' = "returned"
    /\ UNCHANGED <<aframe, sync_attempt, sync_last_exception, sync_delay, sync_delayLog,
                   sync_raised>>

\* retry_sync_with_backoff: func raises; when the wrapper retries, it computes the
\* delay and blocks in time.sleep.
SyncAttemptFail ==
    /\ sync_rpc = "try"
    /\ sync_attempt <= max_retries
    /\ Len(sync_callLog) < Len(callLog)
    /\ SyncNextOutcome # "ok"
    /\ sync_callLog' = Append(sync_callLog, SyncNextOutcome)
    /\ LET e == Exc(SyncNextOutcome, "func", Len(sync_callLog) + 1) IN
       IF SyncRetryable(SyncNextOutcome, exceptions)
       THEN /\ sync_last_exception' = SyncLastException(sync_last_exception, e)
            /\ IF SyncIsFinalAttempt(sync_attempt, max_retries)
               THEN /\ sync_rpc' = "raised"
                    /\ sync_raised' = sync_last_exception'
                    /\ UNCHANGED <<sync_delay, sync_delayLog>>
               ELSE /\ sync_rpc' = "sleep"
                    /\ LET u == SyncBackoff(base_delay, exponential_base, sync_attempt,
                                            max_delay)
                       IN /\ sync_delayLog' = Append(sync_delayLog, u)
                          /\ \E r \in RandomDraws : sync_delay' = SyncJittered(u, jitter, r)
                    /\ UNCHANGED sync_raised
       ELSE /\ sync_rpc' = "raised"
            /\ sync_raised' = e
            /\ UNCHANGED <<sync_last_exception, sync_delay, sync_delayLog>>
    /\ UNCHANGED <<aframe, sync_attempt>>

\* retry_sync_with_backoff: `time.sleep(delay)` returns
SyncSleep ==
    /\ sync_rpc = "sleep"
    /\ sync_attempt' = sync_attempt + 1
    /\ IF sync_attempt + 1 <= max_retries
       THEN sync_rpc' = "try" /\ UNCHANGED sync_raised
       ELSE sync_rpc' = "raised" /\ sync_raised' = sync_last_exception
    /\ UNCHANGED <<aframe, sync_last_exception, sync_callLog, sync_delay, sync_delayLog>>

NextRetry ==
    \/ RetryAttemptOk /\ UNCHANGED <<bvars, ovars, nvars, cvars>>
    \/ (\E kind \in Kinds : RetryAttemptFail(kind)) /\ UNCHANGED <<bvars, ovars, nvars, cvars>>
    \/ RetrySleep /\ UNCHANGED <<bvars, ovars, nvars, cvars>>

NextRetrySync ==
    \/ RetryAttemptOk /\ UNCHANGED <<bvars, ovars, nvars, cvars>>
    \/ (\E kind \in Kinds : RetryAttemptFail(kind)) /\ UNCHANGED <<bvars, ovars, nvars, cvars>>
    \/ RetrySleep /\ UNCHANGED <<bvars, ovars, nvars, cvars>>
    \/ SyncAttemptOk /\ UNCHANGED <<bvars, ovars, nvars, cvars>>
    \/ SyncAttemptFail /\ UNCHANGED <<bvars, ovars, nvars, cvars>>
    \/ SyncSleep /\ UNCHANGED <<bvars, ovars, nvars, cvars>>

\* ======================================================================
\* BaseAgent.call_openrouter and OpenRouterClient.chat_completion: a worker's
\* remote call. Both methods are decorated with
\* @retry_with_backoff(max_retries=config.max_retries) and the other decorator
\* arguments at their defaults.
\* ======================================================================
\* what one HTTP request can fail with: response.raise_for_status() raises
\* aiohttp.ClientResponseError for a 5xx ("ServerError"), a 401 ("AuthError") and
\* a 400 ("BadRequest") response
RequestFailures == {"ServerError", "AuthError", "BadRequest"}
\* RuntimeError("OpenRouter client not initialized")
ClientNotInitialized == "RuntimeError"
RemoteKinds == RequestFailures \cup {ClientNotInitialized}
\* the default `exceptions=(Exception,)`: every one of these classes derives from
\* Exception
DefaultExceptions == RemoteKinds

InitRemoteVars ==
    /\ config_max_retries \in 0..MaxConfigRetries
    /\ openrouter = FALSE
    /\ client_session = "None"
    /\ ctx = "new"
    /\ outer_attempt = 0
    /\ outer_last = NoExc
    /\ inner_attempt = 0
    /\ inner_last = NoExc
    /\ npc = "ready"
    /\ requests = 0
    /\ bodies = 0
    /\ failureKinds = {}
    /\ n_raised = NoExc

IdleRemoteVars ==
    /\ config_max_retries = 0
    /\ openrouter = FALSE
    /\ client_session = "None"
    /\ ctx = "new"
    /\ outer_attempt = 0
    /\ outer_last = NoExc
    /\ inner_attempt = 0
    /\ inner_last = NoExc
    /\ npc = "idle"
    /\ requests = 0
    /\ bodies = 0
    /\ failureKinds = {}
    /\ n_raised = NoExc

ncall == <<config_max_retries, outer_attempt, outer_last, inner_attempt, inner_last,
           requests, bodies, failureKinds, n_raised>>

\* `async with agent:` is entered. BaseAgent.__aenter__: `self.openrouter =
\* OpenRouterClient(...)`; `await self.openrouter.__aenter__()`, which sets
\* `self.session = aiohttp.ClientSession(...)`
AgentEnter ==
    /\ npc = "ready"
    /\ ctx = "new"
    /\ ctx' = "entered"
    /\ openrouter' = TRUE
    /\ client_session' = "open"
    /\ UNCHANGED <<ncall, npc>>

\* the agent's code calls call_openrouter(messages), inside the context or
\* without having entered it
CallOpenrouter ==
    /\ npc = "ready"
    /\ ctx \in {"new", "entered"}
    /\ npc' = "outer_try"
    /\ UNCHANGED <<ncall, openrouter, client_session, ctx>>

\* the `async with` block is left, normally or by the exception of the call.
\* BaseAgent.__aexit__: `if self.openrouter: await self.openrouter.__aexit__(...)`;
\* OpenRouterClient.__aexit__: `if self.session: await self.session.close()`.
\* Neither assigns an attribute.
AgentExit ==
    /\ npc \in {"ready", "returned", "raised"}
    /\ ctx = "entered"
    /\ ctx' = "exited"
    /\ client_session' = IF openrouter /\ client_session # "None" THEN "closed"
                         ELSE client_session
    /\ UNCHANGED <<ncall, npc, openrouter>>

\* the wrapper around call_openrouter meets exception e raised by the body
OuterExcept(e) ==
    IF Retryable(e.kind, DefaultExceptions)
    THEN /\ outer_last' = LastException(outer_last, e)
         /\ IF IsFinalAttempt(outer_attempt, config_max_retries)
            THEN npc' = "raised" /\ n_raised' = outer_last'
            ELSE npc' = "outer_sleep" /\ UNCHANGED n_raised
    ELSE /\ npc' = "raised"
         /\ n_raised' = e
         /\ UNCHANGED outer_last

\* One iteration of the outer loop: the body of call_openrouter runs. `if not
\* self.openrouter: raise RuntimeError(...)`, else it awaits
\* self.openrouter.chat_completion(...), which enters the inner wrapper.
OuterTry ==
    /\ npc = "outer_try"
    /\ bodies' = bodies + 1
    /\ IF ~openrouter
       THEN /\ OuterExcept(Exc(ClientNotInitialized, "call_openrouter", bodies + 1))
            /\ failureKinds' = failureKinds \cup {ClientNotInitialized}
            /\ UNCHANGED <<inner_attempt, inner_last>>
       ELSE /\ npc' = "inner_try"
            /\ inner_attempt' = 0
            /\ inner_last' = NoExc
            /\ UNCHANGED <<outer_last, n_raised, failureKinds>>
    /\ UNCHANGED <<config_max_retries, openrouter, client_session, ctx, outer_attempt, requests>>

\* One iteration of the inner loop: the request is sent and the response is good;
\* the result is returned through both wrappers.
RequestOk ==
    /\ npc = "inner_try"
    /\ requests' = requests + 1
    /\ npc' = "returned"
    /\ UNCHANGED <<config_max_retries, openrouter, client_session, ctx,
                    outer_attempt, outer_last,
                   inner_attempt, inner_last, bodies, failureKinds, n_raised>>

\* One iteration of the inner loop: the request is sent and fails with `kind`;
\* chat_completion re-raises it to its wrapper, whose final raise lands in the
\* outer wrapper.
RequestFail(kind) ==
    /\ npc = "inner_try"
    /\ requests' = requests + 1
    /\ failureKinds' = failureKinds \cup {kind}
    /\ LET e == Exc(kind, "chat_completion", requests + 1) IN
       IF Retryable(kind, DefaultExceptions)
       THEN /\ inner_last' = LastException(inner_last, e)
            /\ IF IsFinalAttempt(inner_attempt, config_max_retries)
               THEN OuterExcept(inner_last')
               ELSE /\ npc' = "inner_sleep"
                    /\ UNCHANGED <<outer_last, n_raised>>
       ELSE /\ OuterExcept(e)
            /\ UNCHANGED inner_last
    /\ UNCHANGED <<config_max_retries, openrouter, client_session, ctx, outer_attempt, inner_attempt, bodies>>

\* the inner wrapper's asyncio.sleep returns
InnerSleep ==
    /\ npc = "inner_sleep"
    /\ inner_attempt' = inner_attempt + 1
    /\ npc' = "inner_try"
    /\ UNCHANGED <<config_max_retries, openrouter, client_session, ctx,
                    outer_attempt, outer_last, inner_last,
                   requests, bodies, failureKinds, n_raised>>

\* the outer wrapper's asyncio.sleep returns
OuterSleep ==
    /\ npc = "outer_sleep"
    /\ outer_attempt' = outer_attempt + 1
    /\ npc' = "outer_try"
    /\ UNCHANGED <<config_max_retries, openrouter, client_session, ctx,
                    outer_last, inner_attempt, inner_last,
                   requests, bodies, failureKinds, n_raised>>

NextRemote ==
    \/ AgentEnter /\ UNCHANGED <<rvars, bvars, ovars, cvars>>
    \/ CallOpenrouter /\ UNCHANGED <<rvars, bvars, ovars, cvars>>
    \/ AgentExit /\ UNCHANGED <<rvars, bvars, ovars, cvars>>
    \/ OuterTry /\ UNCHANGED <<rvars, bvars, ovars, cvars>>
    \/ RequestOk /\ UNCHANGED <<rvars, bvars, ovars, cvars>>
    \/ (\E kind \in RequestFailures : RequestFail(kind)) /\ UNCHANGED <<rvars, bvars, ovars, cvars>>
    \/ InnerSleep /\ UNCHANGED <<rvars, bvars, ovars, cvars>>
    \/ OuterSleep /\ UNCHANGED <<rvars, bvars, ovars, cvars>>

\* ======================================================================
\* CircuitBreaker
\* ======================================================================
NoTime == -1          \* last_failure_time = None

\* _can_attempt with `>=` in place of `>` in the elapsed-time comparison
CanAttemptAtTimeout(st, lft, t, timeout) ==
    CASE st = "CLOSED" -> TRUE
      [] st = "OPEN" -> lft # NoTime /\ (t - lft) >= timeout
      [] OTHER -> TRUE
\* _can_attempt: its return value
CanAttempt(st, lft, t, timeout) ==
    CASE st = "CLOSED" -> TRUE
      [] st = "OPEN" -> lft # NoTime /\ (t - lft) > timeout
      [] OTHER -> TRUE

\* _can_attempt that moves to HALF_OPEN at every check made in OPEN
CanAttemptStateEager(st, lft, t, timeout) ==
    IF st = "OPEN" THEN "HALF_OPEN" ELSE st
\* _can_attempt: self.state when it returns
CanAttemptState(st, lft, t, timeout) ==
    IF st = "OPEN" /\ CanAttempt(st, lft, t, timeout) THEN "HALF_OPEN" ELSE st

\* _record_failure with `>` in place of `>=`
RecordFailureStateStrict(st, count, threshold) ==
    IF count > threshold THEN "OPEN" ELSE st
\* _record_failure: self.state after it, `count` being the incremented failure_count
RecordFailureState(st, count, threshold) ==
    IF count >= threshold THEN "OPEN" ELSE st

\* `self.failure_count += 1` that counts failures landing together only once
RecordFailureCountOnce(count) == IF count >= 1 THEN count ELSE count + 1
\* _record_failure: `self.failure_count += 1`
RecordFailureCount(count) == count + 1

\* _record_success that leaves failure_count alone
RecordSuccessCountKept(count) == count
\* _record_success: self.failure_count after it
RecordSuccessCount(count) == 0

\* `except` that catches whatever func raised
ExceptMatchesAll(raised) == TRUE
\* call(): `except self.expected_exception as e` catches what func raised
ExceptMatches(raised) == raised = "expected"

InitBreakerVars ==
    /\ failure_threshold \in 0..MaxThreshold
    /\ recovery_timeout \in 0..MaxTimeout
    /\ failure_count = 0
    /\ last_failure_time = NoTime
    /\ state = "CLOSED"
    /\ now = 0
    /\ inflight = {}
    /\ hist = <<>>
    /\ attempts = 0
    /\ rejected = 0
    /\ invocations = 0

IdleBreakerVars ==
    /\ failure_threshold = 0
    /\ recovery_timeout = 0
    /\ failure_count = 0
    /\ last_failure_time = NoTime
    /\ state = "CLOSED"
    /\ now = 0
    /\ inflight = {}
    /\ hist = <<>>
    /\ attempts = 0
    /\ rejected = 0
    /\ invocations = 0

\* call(): `if not self._can_attempt(): raise Exception("Circuit breaker is OPEN")`
CallRejected ==
    /\ attempts < MaxCalls
    /\ ~CanAttempt(state, last_failure_time, now, recovery_timeout)
    /\ attempts' = attempts + 1
    /\ rejected' = rejected + 1
    /\ state' = CanAttemptState(state, last_failure_time, now, recovery_timeout)
    /\ UNCHANGED <<failure_threshold, recovery_timeout, failure_count, last_failure_time,
                   now, inflight, hist, invocations>>

\* call(): _can_attempt() returns True and func is invoked; the call is suspended
\* at `await func(...)`.
CallAdmitted ==
    /\ attempts < MaxCalls
    /\ Cardinality(inflight) < MaxInflight
    /\ CanAttempt(state, last_failure_time, now, recovery_timeout)
    /\ attempts' = attempts + 1
    /\ invocations' = invocations + 1
    /\ state' = CanAttemptState(state, last_failure_time, now, recovery_timeout)
    /\ inflight' = inflight \cup {[id |-> attempts + 1, at |-> state']}
    /\ UNCHANGED <<failure_threshold, recovery_timeout, failure_count, last_failure_time,
                   now, hist, rejected>>

\* call(): func returned; _record_success()
CallSucceed(c) ==
    /\ c \in inflight
    /\ inflight' = inflight \ {c}
    /\ failure_count' = RecordSuccessCount(failure_count)
    /\ state' = "CLOSED"
    /\ hist' = Append(hist, "ok")
    /\ UNCHANGED <<failure_threshold, recovery_timeout, last_failure_time, now,
                   attempts, rejected, invocations>>

\* call(): func raised expected_exception; _record_failure(); raise e
CallFail(c) ==
    /\ c \in inflight
    /\ ExceptMatches("expected")
    /\ inflight' = inflight \ {c}
    /\ failure_count' = RecordFailureCount(failure_count)
    /\ last_failure_time' = now
    /\ state' = RecordFailureState(state, failure_count', failure_threshold)
    /\ hist' = Append(hist, "fail")
    /\ UNCHANGED <<failure_threshold, recovery_timeout, now, attempts, rejected, invocations>>

\* call(): func raised an exception that does not match expected_exception: the
\* except clause is passed over and the exception propagates.
CallOther(c) ==
    /\ c \in inflight
    /\ inflight' = inflight \ {c}
    /\ hist' = Append(hist, "other")
    /\ IF ExceptMatches("other")
       THEN /\ failure_count' = RecordFailureCount(failure_count)
            /\ last_failure_time' = now
            /\ state' = RecordFailureState(state, failure_count', failure_threshold)
       ELSE UNCHANGED <<failure_count, last_failure_time, state>>
    /\ UNCHANGED <<failure_threshold, recovery_timeout, now, attempts, rejected, invocations>>

\* time passes
Tick ==
    /\ now < MaxTime
    /\ now' = now + 1
    /\ UNCHANGED <<failure_threshold, recovery_timeout, failure_count, last_failure_time,
                   state, inflight, hist, attempts, rejected, invocations>>

NextBreaker ==
    \/ CallRejected /\ UNCHANGED <<rvars, ovars, nvars, cvars>>
    \/ CallAdmitted /\ UNCHANGED <<rvars, ovars, nvars, cvars>>
    \/ (\E c \in inflight : CallSucceed(c)) /\ UNCHANGED <<rvars, ovars, nvars, cvars>>
    \/ (\E c \in inflight : CallFail(c)) /\ UNCHANGED <<rvars, ovars, nvars, cvars>>
    \/ (\E c \in inflight : CallOther(c)) /\ UNCHANGED <<rvars, ovars, nvars, cvars>>
    \/ Tick /\ UNCHANGED <<rvars, ovars, nvars, cvars>>

\* ======================================================================
\* MasterAgent.process_topic / process_topic_with_research, the sub-agents'
\* execute_with_logging and the session record store
\* ======================================================================
Workers == {"post", "voice", "keyword"}
SessionIds == 1..MaxRuns
EntryPoints == {"process_topic", "process_topic_with_research"}

\* str(e)
Msg(e) == e.kind
\* the dict a sub-agent's execute returns
Output(w, n) == Exc("ok", w, n)
IsException(v) == v.kind \notin {"None", "ok"}

\* ---- the session record store
NoRow == [status |-> "none", completed_at |-> NoTime, error_message |-> "None"]
\* Session(topic=topic, analysis=analysis) as committed by create_session_record
NewSession == [status |-> "pending", completed_at |-> NoTime, error_message |-> "None"]

\* update_session_status that stamps completed_at on every status
UpdateSessionStatusStamped(row, status, error_message, t) ==
    IF row.status = "none"
    THEN row
    ELSE [status |-> status,
          completed_at |-> t,
          error_message |-> IF error_message \notin {"None", ""}
                            THEN error_message ELSE row.error_message]
\* update_session_status: the row after it (`if db_session:` skips a missing row)
UpdateSessionStatus(row, status, error_message, t) ==
    IF row.status = "none"
    THEN row
    ELSE [status |-> status,
          completed_at |-> IF status = "completed" THEN t ELSE row.completed_at,
          error_message |-> IF error_message \notin {"None", ""}
                            THEN error_message ELSE row.error_message]

\* ---- the sub-agents' inputs (post_input, voice_input, keyword_input)
InputKeys(w) ==
    CASE w = "post" -> {"topic", "research", "research_response"}
      [] w = "voice" -> {"topic", "research_response"}
      [] w = "keyword" -> {"topic", "research_response"}
\* the keys each sub-agent's execute passes to validate_input
RequiredKeys(w) ==
    CASE w = "post" -> {"topic", "research", "keywords"}
      [] w = "voice" -> {"topic", "research_response"}
      [] w = "keyword" -> {"topic"}
\* validate_input: missing_keys = [key for key in required_keys if key not in input_data]
MissingKeys(w) == RequiredKeys(w) \ InputKeys(w)
\* validate_input without its test
ValidInputAlways(w) == TRUE
\* validate_input: `if missing_keys: raise ValueError(...)` does not raise
ValidInput(w) == MissingKeys(w) = {}
\* the call_openrouter calls of each sub-agent's execute
RemoteCalls(w) ==
    CASE w = "post" -> 2
      [] w = "voice" -> 2
      [] w = "keyword" -> 1

\* ---- fan-in
\* the order in which the coroutines are passed to asyncio.gather and in which its
\* results are unpacked
LaunchOrder == <<"post", "voice", "keyword">>
Position(name) == CHOOSE i \in 1..Len(LaunchOrder) : LaunchOrder[i] = name

\* the tuple unpacked from gather, with the first two results swapped
GatherResultSwapped(outcomes, order, name) ==
    CASE name = "post" -> outcomes["voice"]
      [] name = "voice" -> outcomes["post"]
      [] OTHER -> outcomes[name]
\* results taken in completion order (asyncio.as_completed) in place of gather's
\* argument order
GatherResultAsCompleted(outcomes, order, name) == outcomes[order[Position(name)]]
\* post_result, voice_result, keyword_result = await asyncio.gather(post_task,
\* voice_task, keyword_task, return_exceptions=True): the result bound to `name`;
\* gather returns its results in the order of its arguments, whatever the order
\* `order` in which the coroutines ended
GatherResult(outcomes, order, name) == outcomes[name]

\* the loop over the gathered results without its isinstance test
FanInResultKept(result) == result
\* results[name] of the loop over the gathered results
FanInResult(result) == IF IsException(result) THEN NoExc ELSE result

\* the defaults "" and []
Empty == Exc("empty", "none", 0)
EmptyList == Exc("emptylist", "none", 0)
\* the value a sub-agent's output dict holds under `key`
Get(out, key) == Exc(key, out.by, out.n)
\* results.get(name, {}).get(key, default) if results.get(name) else default
Field(res, name, key, default) ==
    IF res[name] # NoExc THEN Get(res[name], key) ELSE default

\* the caller's arguments `topic` and `research_response`
Topic == Exc("str", "topic", 0)
Research == Exc("str", "research_response", 0)

NoResult == [session_id |-> 0, topic |-> NoExc, research_response |-> NoExc,
             linkedin_post |-> NoExc, voice_dialog |-> NoExc,
             keywords |-> NoExc, hashtags |-> NoExc, research_summary |-> NoExc]
\* the dict returned by process_topic_with_research
Aggregate(sid, res) ==
    [session_id |-> sid,
     topic |-> Topic,
     research_response |-> Research,
     linkedin_post |-> Field(res, "post", "content", Empty),
     voice_dialog |-> Field(res, "voice", "dialog", Empty),
     keywords |-> Field(res, "keyword", "keywords", EmptyList),
     hashtags |-> Field(res, "keyword", "hashtags", EmptyList),
     research_summary |-> Research]

InitOrchVars ==
    /\ store = [i \in SessionIds |-> NoRow]
    /\ agentLog = [w \in Workers |-> <<>>]
    /\ dbclock = 0
    /\ session_id = 0
    /\ pc = "idle"
    /\ entry = "none"
    /\ resume_id = 0
    /\ wpc = [w \in Workers |-> "idle"]
    /\ woutcome = [w \in Workers |-> NoExc]
    /\ wcalls = [w \in Workers |-> 0]
    /\ missing_keys = [w \in Workers |-> {}]
    /\ results = [w \in Workers |-> NoExc]
    /\ o_raised = NoExc
    /\ o_returned = NoResult
    /\ runs = 0
    /\ run_session = 0
    /\ snapshot = NoRow
    /\ statusLog = <<>>
    /\ doneOrder = <<>>

\* A caller awaits process_topic(topic, session_id) or
\* process_topic_with_research(topic, research_response, session_id) on the agent.
StartRun(ep, rid) ==
    /\ pc \in {"idle", "done"}
    /\ runs < MaxRuns
    /\ runs' = runs + 1
    /\ entry' = ep
    /\ resume_id' = rid
    /\ run_session' = IF rid # 0 /\ store[rid].status # "none" THEN rid ELSE 0
    /\ snapshot' = IF rid # 0 THEN store[rid] ELSE NoRow
    /\ pc' = IF ep = "process_topic" THEN "research" ELSE "session"
    /\ agentLog' = [w \in Workers |-> <<>>]
    /\ wpc' = [w \in Workers |-> "idle"]
    /\ woutcome' = [w \in Workers |-> NoExc]
    /\ wcalls' = [w \in Workers |-> 0]
    /\ missing_keys' = [w \in Workers |-> {}]
    /\ results' = [w \in Workers |-> NoExc]
    /\ o_raised' = NoExc
    /\ o_returned' = NoResult
    /\ statusLog' = <<>>
    /\ doneOrder' = <<>>
    /\ UNCHANGED <<store, dbclock, session_id>>

\* process_topic: get_perplexity_research returns
ResearchOk ==
    /\ pc = "research"
    /\ pc' = "session"
    /\ UNCHANGED <<store, agentLog, dbclock, session_id, entry, resume_id, wpc, woutcome,
                   wcalls, missing_keys,
                   results, o_raised, o_returned, runs, run_session, snapshot, statusLog, doneOrder>>

\* process_topic: get_perplexity_research raises; the call is outside any try
ResearchFail ==
    /\ pc = "research"
    /\ pc' = "done"
    /\ o_raised' = Exc("ResearchError", "master", runs)
    /\ UNCHANGED <<store, agentLog, dbclock, session_id, entry, resume_id, wpc, woutcome,
                   wcalls, missing_keys,
                   results, o_returned, runs, run_session, snapshot, statusLog, doneOrder>>

\* one update_session_status call: its arguments and whether the store took it
StatusCall(id, status, ok) == [id |-> id, status |-> status, ok |-> ok]

\* `except Exception as e: if self.session_id: await update_session_status(
\* self.session_id, "failed", str(e)); raise`. writeOk: the store accepts the write;
\* when it does not, the store's error leaves the handler instead of e. `issued`
\* is the status calls the run has made when the handler starts.
Except(e, writeOk, issued) ==
    /\ pc' = "done"
    /\ IF session_id # 0
       THEN /\ statusLog' = Append(issued, StatusCall(session_id, "failed", writeOk))
            /\ IF writeOk
               THEN /\ store' = [store EXCEPT ![session_id] =
                                    UpdateSessionStatus(@, "failed", Msg(e), dbclock)]
                    /\ dbclock' = dbclock + 1
                    /\ o_raised' = e
               ELSE /\ o_raised' = Exc("StoreError", "handler", runs)
                    /\ UNCHANGED <<store, dbclock>>
       ELSE /\ o_raised' = e
            /\ statusLog' = issued
            /\ UNCHANGED <<store, dbclock>>

\* `self.session_id = await create_session_record(topic)`
CreateSessionOk ==
    /\ pc = "session"
    /\ resume_id = 0
    /\ LET id == CHOOSE i \in SessionIds :
                    /\ store[i].status = "none"
                    /\ \A j \in SessionIds : store[j].status = "none" => i <= j
       IN /\ store' = [store EXCEPT ![id] = NewSession]
          /\ session_id' = id
          /\ run_session' = id
    /\ pc' = "init"
    /\ UNCHANGED <<agentLog, dbclock, entry, resume_id, wpc, woutcome,
                   wcalls, missing_keys, results,
                   o_raised, o_returned, runs, snapshot, statusLog, doneOrder>>

\* create_session_record raises: the handler runs with self.session_id as the
\* agent's earlier run left it
CreateSessionFail ==
    /\ pc = "session"
    /\ resume_id = 0
    /\ \E writeOk \in BOOLEAN : Except(Exc("CreateError", "master", runs), writeOk, statusLog)
    /\ UNCHANGED <<agentLog, session_id, entry, resume_id, wpc, woutcome,
                   wcalls, missing_keys, results,
                   o_returned, runs, run_session, snapshot, doneOrder>>

\* `self.session_id = session_id`
ResumeSession ==
    /\ pc = "session"
    /\ resume_id # 0
    /\ session_id' = resume_id
    /\ pc' = "init"
    /\ UNCHANGED <<store, agentLog, dbclock, entry, resume_id, wpc, woutcome,
                   wcalls, missing_keys, results,
                   o_raised, o_returned, runs, run_session, snapshot, statusLog, doneOrder>>

\* initialize_all_agents returns; the inputs are prepared, the three coroutines are
\* created and the orchestrator suspends in asyncio.gather
InitAgentsOk ==
    /\ pc = "init"
    /\ pc' = "gather"
    /\ wpc' = [w \in Workers |-> "start"]
    /\ UNCHANGED <<store, agentLog, dbclock, session_id, entry, resume_id, woutcome,
                   wcalls, missing_keys,
                   results, o_raised, o_returned, runs, run_session, snapshot, statusLog, doneOrder>>

\* initialize_all_agents raises
InitAgentsFail ==
    /\ pc = "init"
    /\ \E writeOk \in BOOLEAN : Except(Exc("InitError", "master", runs), writeOk, statusLog)
    /\ UNCHANGED <<agentLog, session_id, entry, resume_id, wpc, woutcome,
                   wcalls, missing_keys, results,
                   o_returned, runs, run_session, snapshot, doneOrder>>

\* log_action that returns without appending, as it does without a session id
LogActionDropped(log, sid, action) == log
\* log_action: `if not self.session_id: ... return`, else the AgentLog row is
\* committed by log_agent_action
LogAction(log, sid, action) == IF sid = 0 THEN log ELSE Append(log, action)

wframe == <<store, dbclock, session_id, pc, entry, resume_id, results, o_raised,
            o_returned, runs, run_session, snapshot, statusLog>>
\* the log_action calls of execute_with_logging make no remote call
lframe == <<wframe, wcalls, missing_keys>>

\* the calls a sub-agent is suspended in during its unit of work: the request of
\* chat_completion and the backoff delay of the retry wrapper
SuspensionPoints == {"await session.post", "await asyncio.sleep"}
\* a wait that keeps the event loop for itself
BlocksLoopAlways(call) == TRUE
\* whether a call holds the event loop while it waits: an awaited call yields it
BlocksLoop(call) == call = "time.sleep"
\* sub-agent w is in its unit of work and its wait keeps the event loop
Blocking(w) == wpc[w] = "work" /\ \E c \in SuspensionPoints : BlocksLoop(c)
\* the event loop can resume sub-agent w's coroutine
CanRun(w) == \A v \in Workers \ {w} : ~Blocking(v)

\* execute_with_logging: `await self.log_action("execute_start", ...)`; logOk: the
\* store accepts the row
WorkerStartLog(w, logOk) ==
    /\ pc = "gather"
    /\ CanRun(w)
    /\ wpc[w] = "start"
    /\ IF logOk
       THEN /\ agentLog' = [agentLog EXCEPT ![w] = LogAction(@, session_id, "execute_start")]
            /\ wpc' = [wpc EXCEPT ![w] = "work"]
            /\ UNCHANGED woutcome
       ELSE /\ wpc' = [wpc EXCEPT ![w] = "failed"]
            /\ woutcome' = [woutcome EXCEPT ![w] = Exc("StoreError", w, runs)]
            /\ UNCHANGED agentLog
    /\ UNCHANGED <<lframe, doneOrder>>

\* execute_with_logging: `result = await self.execute(input_data)` returns
WorkerExecuteOk(w) ==
    /\ pc = "gather"
    /\ CanRun(w)
    /\ wpc[w] = "work"
    /\ ValidInput(w)
    /\ wpc' = [wpc EXCEPT ![w] = "complete"]
    /\ woutcome' = [woutcome EXCEPT ![w] = Output(w, runs)]
    /\ wcalls' = [wcalls EXCEPT ![w] = RemoteCalls(w)]
    /\ UNCHANGED <<agentLog, wframe, doneOrder, missing_keys>>

\* execute raises: validate_input's ValueError in its first statement, or an
\* error of the unit of work, in its k-th remote call or in a later statement
WorkerExecuteFail(w) ==
    /\ pc = "gather"
    /\ CanRun(w)
    /\ wpc[w] = "work"
    /\ wpc' = [wpc EXCEPT ![w] = "failed"]
    /\ IF ValidInput(w)
       THEN /\ woutcome' = [woutcome EXCEPT ![w] = Exc("WorkError", w, runs)]
            /\ \E k \in 1..RemoteCalls(w) : wcalls' = [wcalls EXCEPT ![w] = k]
            /\ UNCHANGED missing_keys
       ELSE /\ woutcome' = [woutcome EXCEPT ![w] = Exc("ValueError", w, runs)]
            /\ missing_keys' = [missing_keys EXCEPT ![w] = MissingKeys(w)]
            /\ UNCHANGED wcalls
    /\ UNCHANGED <<agentLog, wframe, doneOrder>>

\* execute_with_logging: `await self.log_action("execute_complete", ...)`; return result
WorkerCompleteLog(w, logOk) ==
    /\ pc = "gather"
    /\ CanRun(w)
    /\ wpc[w] = "complete"
    /\ IF logOk
       THEN /\ agentLog' = [agentLog EXCEPT ![w] = LogAction(@, session_id, "execute_complete")]
            /\ wpc' = [wpc EXCEPT ![w] = "done"]
            /\ doneOrder' = Append(doneOrder, w)
            /\ UNCHANGED woutcome
       ELSE /\ wpc' = [wpc EXCEPT ![w] = "failed"]
            /\ woutcome' = [woutcome EXCEPT ![w] = Exc("StoreError", w, runs)]
            /\ UNCHANGED <<agentLog, doneOrder>>
    /\ UNCHANGED lframe

\* execute_with_logging: `except Exception as e: await self.log_action(
\* "execute_failed", ...); raise`
WorkerFailedLog(w, logOk) ==
    /\ pc = "gather"
    /\ CanRun(w)
    /\ wpc[w] = "failed"
    /\ wpc' = [wpc EXCEPT ![w] = "done"]
    /\ doneOrder' = Append(doneOrder, w)
    /\ IF logOk
       THEN /\ agentLog' = [agentLog EXCEPT ![w] = LogAction(@, session_id, "execute_failed")]
            /\ UNCHANGED woutcome
       ELSE /\ woutcome' = [woutcome EXCEPT ![w] = Exc("StoreError", w, runs)]
            /\ UNCHANGED agentLog
    /\ UNCHANGED lframe

\* asyncio.gather returns once every coroutine has ended; the loop fills `results`
FanIn ==
    /\ pc = "gather"
    /\ \A w \in Workers : wpc[w] = "done"
    /\ results' = [w \in Workers |-> FanInResult(GatherResult(woutcome, doneOrder, w))]
    /\ pc' = "status"
    /\ UNCHANGED <<store, agentLog, dbclock, session_id, entry, resume_id, wpc, woutcome,
                   wcalls, missing_keys,
                   o_raised, o_returned, runs, run_session, snapshot, statusLog, doneOrder>>

\* `await update_session_status(self.session_id, "completed")`, then the result
\* dict is returned
WriteCompleted ==
    /\ pc = "status"
    /\ store' = [store EXCEPT ![session_id] =
                    UpdateSessionStatus(@, "completed", "None", dbclock)]
    /\ dbclock' = dbclock + 1
    /\ o_returned' = Aggregate(session_id, results)
    /\ statusLog' = Append(statusLog, StatusCall(session_id, "completed", TRUE))
    /\ pc' = "done"
    /\ UNCHANGED <<agentLog, session_id, entry, resume_id, wpc, woutcome,
                   wcalls, missing_keys, results,
                   o_raised, runs, run_session, snapshot, doneOrder>>

\* update_session_status(self.session_id, "completed") raises
WriteCompletedFail ==
    /\ pc = "status"
    /\ \E writeOk \in BOOLEAN : Except(Exc("StoreError", "master", runs), writeOk,
                                     Append(statusLog, StatusCall(session_id, "completed", FALSE)))
    /\ UNCHANGED <<agentLog, session_id, entry, resume_id, wpc, woutcome,
                   wcalls, missing_keys, results,
                   o_returned, runs, run_session, snapshot, doneOrder>>

\* The task running the job is cancelled while it waits in asyncio.gather: gather
\* cancels every coroutine that has not ended, and CancelledError (a BaseException)
\* passes both execute_with_logging's and the orchestrator's `except Exception`.
Cancel ==
    /\ pc = "gather"
    /\ \E w \in Workers : wpc[w] # "done"
    /\ wpc' = [w \in Workers |-> IF wpc[w] = "done" THEN "done" ELSE "cancelled"]
    /\ woutcome' = [w \in Workers |-> IF wpc[w] = "done" THEN woutcome[w]
                                      ELSE Exc("CancelledError", w, runs)]
    /\ o_raised' = Exc("CancelledError", "master", runs)
    /\ pc' = "done"
    /\ UNCHANGED <<store, agentLog, dbclock, session_id, entry, resume_id, results,
                   o_returned, runs, run_session, snapshot, statusLog, doneOrder,
                   wcalls, missing_keys>>

NextOrch ==
    \/ (\E ep \in EntryPoints, rid \in {0} \cup SessionIds : StartRun(ep, rid))
          /\ UNCHANGED <<rvars, bvars, nvars, cvars>>
    \/ ResearchOk /\ UNCHANGED <<rvars, bvars, nvars, cvars>>
    \/ ResearchFail /\ UNCHANGED <<rvars, bvars, nvars, cvars>>
    \/ CreateSessionOk /\ UNCHANGED <<rvars, bvars, nvars, cvars>>
    \/ CreateSessionFail /\ UNCHANGED <<rvars, bvars, nvars, cvars>>
    \/ ResumeSession /\ UNCHANGED <<rvars, bvars, nvars, cvars>>
    \/ InitAgentsOk /\ UNCHANGED <<rvars, bvars, nvars, cvars>>
    \/ InitAgentsFail /\ UNCHANGED <<rvars, bvars, nvars, cvars>>
    \/ (\E w \in Workers, logOk \in BOOLEAN : WorkerStartLog(w, logOk))
          /\ UNCHANGED <<rvars, bvars, nvars, cvars>>
    \/ (\E w \in Workers : WorkerExecuteOk(w)) /\ UNCHANGED <<rvars, bvars, nvars, cvars>>
    \/ (\E w \in Workers : WorkerExecuteFail(w)) /\ UNCHANGED <<rvars, bvars, nvars, cvars>>
    \/ (\E w \in Workers, logOk \in BOOLEAN : WorkerCompleteLog(w, logOk))
          /\ UNCHANGED <<rvars, bvars, nvars, cvars>>
    \/ (\E w \in Workers, logOk \in BOOLEAN : WorkerFailedLog(w, logOk))
          /\ UNCHANGED <<rvars, bvars, nvars, cvars>>
    \/ FanIn /\ UNCHANGED <<rvars, bvars, nvars, cvars>>
    \/ WriteCompleted /\ UNCHANGED <<rvars, bvars, nvars, cvars>>
    \/ WriteCompletedFail /\ UNCHANGED <<rvars, bvars, nvars, cvars>>
    \/ Cancel /\ UNCHANGED <<rvars, bvars, nvars, cvars>>

\* a step of sub-agent w's coroutine
WorkerStep(w) ==
    \/ \E logOk \in BOOLEAN : WorkerStartLog(w, logOk)
    \/ WorkerExecuteOk(w)
    \/ WorkerExecuteFail(w)
    \/ \E logOk \in BOOLEAN : WorkerCompleteLog(w, logOk)
    \/ \E logOk \in BOOLEAN : WorkerFailedLog(w, logOk)

\* ======================================================================
\* AgentCommunication
\* ======================================================================
Agents == {"a", "b"}
\* the default `agent_name=None` of clear_messages
NoAgent == "None"
\* `None`, returned by get_message_by_id when no message has the id
NoMessage == [seq |-> 0, id |-> <<"msg", -1>>, from_agent |-> NoAgent, to_agent |-> NoAgent,
              status |-> "none"]

\* send_message: f"msg_{int(datetime.utcnow().timestamp() * 1000)}", the clock
\* reading t being in units of 1/TicksPerMs millisecond
MessageId(t) == <<"msg", t \div TicksPerMs>>

\* send_message: the message dict (seq stands for the identity of the dict object)
Message(n, t, from, to) ==
    [seq |-> n, id |-> MessageId(t), from_agent |-> from, to_agent |-> to, status |-> "sent"]

\* receive_messages: the list comprehension
ReceiveMessages(queue, agent_name) ==
    SelectSeq(queue, LAMBDA msg : msg.to_agent = agent_name /\ msg.status = "sent")

\* receive_messages whose loop marks nothing
MarkReceivedNone(queue, agent_name) == queue
\* receive_messages: `for msg in messages: msg["status"] = "received"`
MarkReceived(queue, agent_name) ==
    [i \in 1..Len(queue) |->
        IF queue[i].to_agent = agent_name /\ queue[i].status = "sent"
        THEN [queue[i] EXCEPT !.status = "received"]
        ELSE queue[i]]

\* get_message_by_id: the first message of the queue with that id
GetMessageById(queue, message_id) ==
    IF \E i \in 1..Len(queue) : queue[i].id = message_id
    THEN queue[CHOOSE i \in 1..Len(queue) :
                  /\ queue[i].id = message_id
                  /\ \A j \in 1..(i - 1) : queue[j].id # message_id]
    ELSE NoMessage

\* clear_messages
ClearMessages(queue, agent_name) ==
    IF agent_name # NoAgent
    THEN SelectSeq(queue, LAMBDA msg : msg.from_agent # agent_name /\ msg.to_agent # agent_name)
    ELSE <<>>

\* get_message_stats
GetMessageStats(queue) ==
    LET sent == Len(SelectSeq(queue, LAMBDA msg : msg.status = "sent"))
        received == Len(SelectSeq(queue, LAMBDA msg : msg.status = "received"))
    IN [total |-> Len(queue), sent |-> sent, received |-> received, pending |-> sent]

Returned(op, arg, value) == [op |-> op, arg |-> arg, value |-> value]
NoCall == Returned("none", NoAgent, "None")
Seqs(queue) == {queue[i].seq : i \in 1..Len(queue)}

InitCommVars ==
    /\ message_queue = <<>>
    /\ utcnow = 0
    /\ sentLog = <<>>
    /\ times_returned = [n \in 1..MaxSends |-> 0]
    /\ receives = 0
    /\ cleared = {}
    /\ c_returned = NoCall
    /\ cpc = "ready"

IdleCommVars ==
    /\ message_queue = <<>>
    /\ utcnow = 0
    /\ sentLog = <<>>
    /\ times_returned = [n \in 1..MaxSends |-> 0]
    /\ receives = 0
    /\ cleared = {}
    /\ c_returned = NoCall
    /\ cpc = "idle"

\* the clock advances between two calls
ClockTick ==
    /\ cpc = "ready"
    /\ utcnow < MaxClock
    /\ utcnow' = utcnow + 1
    /\ c_returned' = NoCall
    /\ UNCHANGED <<message_queue, sentLog, times_returned, receives, cleared, cpc>>

\* send_message(from_agent, to_agent, action, payload)
SendMessage(from, to) ==
    /\ cpc = "ready"
    /\ Len(sentLog) < MaxSends
    /\ LET message == Message(Len(sentLog) + 1, utcnow, from, to) IN
          /\ message_queue' = Append(message_queue, message)
          /\ sentLog' = Append(sentLog, [id |-> message.id, to_agent |-> to])
          /\ c_returned' = Returned("send_message", to, message.id)
    /\ UNCHANGED <<utcnow, times_returned, receives, cleared, cpc>>

\* receive_messages(agent_name); the returned list is recorded by the messages'
\* identities
ReceiveCall(agent_name) ==
    /\ cpc = "ready"
    /\ receives < MaxReceives
    /\ receives' = receives + 1
    /\ LET messages == ReceiveMessages(message_queue, agent_name) IN
          /\ c_returned' = Returned("receive_messages", agent_name,
                                    [i \in 1..Len(messages) |-> messages[i].seq])
          /\ times_returned' = [n \in 1..MaxSends |->
                                   IF n \in Seqs(messages) THEN times_returned[n] + 1
                                   ELSE times_returned[n]]
    /\ message_queue' = MarkReceived(message_queue, agent_name)
    /\ UNCHANGED <<utcnow, sentLog, cleared, cpc>>

\* get_message_by_id(id), the id being the one the n-th send_message returned
LookupCall(n) ==
    /\ cpc = "ready"
    /\ n \in 1..Len(sentLog)
    /\ c_returned' = Returned("get_message_by_id", n,
                              GetMessageById(message_queue, sentLog[n].id))
    /\ UNCHANGED <<message_queue, utcnow, sentLog, times_returned, receives, cleared, cpc>>

\* clear_messages(agent_name)
ClearCall(agent_name) ==
    /\ cpc = "ready"
    /\ message_queue' = ClearMessages(message_queue, agent_name)
    /\ cleared' = cleared \cup (Seqs(message_queue) \ Seqs(message_queue'))
    /\ c_returned' = Returned("clear_messages", agent_name, "None")
    /\ UNCHANGED <<utcnow, sentLog, times_returned, receives, cpc>>

\* get_message_stats()
StatsCall ==
    /\ cpc = "ready"
    /\ c_returned' = Returned("get_message_stats", NoAgent, GetMessageStats(message_queue))
    /\ UNCHANGED <<message_queue, utcnow, sentLog, times_returned, receives, cleared, cpc>>

NextComm ==
    \/ ClockTick /\ UNCHANGED <<rvars, bvars, ovars, nvars>>
    \/ (\E from \in Agents, to \in Agents : SendMessage(from, to))
          /\ UNCHANGED <<rvars, bvars, ovars, nvars>>
    \/ (\E a \in Agents : ReceiveCall(a)) /\ UNCHANGED <<rvars, bvars, ovars, nvars>>
    \/ (\E n \in 1..MaxSends : LookupCall(n)) /\ UNCHANGED <<rvars, bvars, ovars, nvars>>
    \/ (\E a \in Agents \cup {NoAgent} : ClearCall(a)) /\ UNCHANGED <<rvars, bvars, ovars, nvars>>
    \/ StatsCall /\ UNCHANGED <<rvars, bvars, ovars, nvars>>

\* ======================================================================
\* specifications
\* ======================================================================
IdleOrchVars ==
    /\ store = [i \in SessionIds |-> NoRow]
    /\ agentLog = [w \in Workers |-> <<>>]
    /\ dbclock = 0
    /\ session_id = 0
    /\ pc = "off"
    /\ entry = "none"
    /\ resume_id = 0
    /\ wpc = [w \in Workers |-> "idle"]
    /\ woutcome = [w \in Workers |-> NoExc]
    /\ wcalls = [w \in Workers |-> 0]
    /\ missing_keys = [w \in Workers |-> {}]
    /\ results = [w \in Workers |-> NoExc]
    /\ o_raised = NoExc
    /\ o_returned = NoResult
    /\ runs = 0
    /\ run_session = 0
    /\ snapshot = NoRow
    /\ statusLog = <<>>
    /\ doneOrder = <<>>

InitRetry == InitRetryVars /\ IdleSyncVars /\ IdleBreakerVars /\ IdleOrchVars /\ IdleRemoteVars /\ IdleCommVars
SpecRetry == InitRetry /\ [][NextRetry]_vars

InitRetrySync ==
    InitRetryVars /\ InitSyncVars /\ IdleBreakerVars /\ IdleOrchVars /\ IdleRemoteVars /\ IdleCommVars
SpecRetrySync == InitRetrySync /\ [][NextRetrySync]_vars

InitBreaker == IdleRetryVars /\ InitBreakerVars /\ IdleOrchVars /\ IdleRemoteVars /\ IdleCommVars
SpecBreaker == InitBreaker /\ [][NextBreaker]_vars

InitOrch == IdleRetryVars /\ IdleBreakerVars /\ InitOrchVars /\ IdleRemoteVars /\ IdleCommVars
SpecOrch == InitOrch /\ [][NextOrch]_vars

InitRemote == IdleRetryVars /\ IdleBreakerVars /\ IdleOrchVars /\ InitRemoteVars /\ IdleCommVars
SpecRemote == InitRemote /\ [][NextRemote]_vars

InitComm ==
    IdleRetryVars /\ IdleBreakerVars /\ IdleOrchVars /\ IdleRemoteVars /\ InitCommVars
SpecComm == InitComm /\ [][NextComm]_vars

\* ======================================================================
\* properties
\* ======================================================================
Last(s) == s[Len(s)]

\* every invocation so far failed with an exception of the allow-list
AllRetryable ==
    \A i \in 1..Len(callLog) : callLog[i] # "ok" /\ callLog[i] \in exceptions

\* C1: an operation that fails on every attempt with a retryable exception is
\* invoked exactly max_retries + 1 times (never more, and the wrapper does not end
\* before), and the wrapper then raises the exception of the last attempt.
C1_ExhaustRetries ==
    (rpc # "idle" /\ AllRetryable) =>
        /\ Len(callLog) <= max_retries + 1
        /\ rpc # "returned"
        /\ (rpc = "raised") <=> (Len(callLog) = max_retries + 1)
        /\ rpc = "raised" => r_raised = Exc(Last(callLog), "func", Len(callLog))

C1_Witness ==
    /\ rpc = "raised"
    /\ AllRetryable
    /\ max_retries = 2
    /\ Len(callLog) = 3
    /\ callLog[1] # callLog[3]
    /\ r_raised = Exc(callLog[3], "func", 3)

\* C2: an exception whose kind is not in the allow-list ends the wrapper at once:
\* the invocation that raised it is the last one, no backoff wait follows it, and
\* the wrapper raises that exception; raised by the first attempt, the operation
\* is invoked exactly once and the wrapper never waits.
C2_NonRetryableOnce ==
    \A i \in 1..Len(callLog) :
        (callLog[i] # "ok" /\ callLog[i] \notin exceptions) =>
            /\ i = Len(callLog)
            /\ rpc = "raised"
            /\ r_raised = Exc(callLog[i], "func", i)
            /\ Len(sleepLog) = i - 1

C2_Witness ==
    /\ rpc = "raised"
    /\ max_retries = 3
    /\ Len(callLog) = 1
    /\ callLog[1] \notin exceptions
    /\ exceptions # {}
    /\ sleepLog = <<>>
    /\ r_raised = Exc(callLog[1], "func", 1)

\* the number of calls at the end of the history that failed with expected_exception
RECURSIVE TrailingFails(_)
TrailingFails(h) ==
    IF h = <<>> \/ Last(h) # "fail" THEN 0
    ELSE 1 + TrailingFails(SubSeq(h, 1, Len(h) - 1))

\* the latest completed calls are failure_threshold (or more) consecutive failures
\* and recovery_timeout has not elapsed since the last of them
OpenedAndNotRecovered ==
    /\ TrailingFails(hist) >= 1
    /\ TrailingFails(hist) >= failure_threshold
    /\ now - last_failure_time < recovery_timeout

\* C3: from CLOSED with failure_count 0, once failure_threshold consecutive calls
\* have failed with expected_exception the breaker is OPEN, and a call made before
\* recovery_timeout has elapsed raises the circuit-open error and does not invoke
\* the operation.
C3_OpenBlocksCalls ==
    [][OpenedAndNotRecovered =>
          /\ state = "OPEN"
          /\ attempts' = attempts + 1 =>
                /\ rejected' = rejected + 1
                /\ invocations' = invocations
                /\ inflight' = inflight
                /\ state' = "OPEN"]_vars

C3_Witness ==
    /\ failure_threshold = 2
    /\ hist = <<"fail", "fail">>
    /\ OpenedAndNotRecovered
    /\ state = "OPEN"
    /\ attempts = 3
    /\ rejected = 1
    /\ invocations = 2

\* C4: a call admitted while HALF_OPEN that succeeds sets failure_count to 0 and
\* the state to CLOSED; one that fails with expected_exception sets the state to
\* OPEN, updates last_failure_time and leaves failure_count >= failure_threshold.
C4_HalfOpenCall ==
    [][\A c \in inflight :
          (c \notin inflight' /\ c.at = "HALF_OPEN") =>
              /\ hist' = Append(hist, "ok") =>
                    (failure_count' = 0 /\ state' = "CLOSED")
              /\ hist' = Append(hist, "fail") =>
                    /\ state' = "OPEN"
                    /\ last_failure_time' = now
                    /\ failure_count' >= failure_threshold]_vars

\* asyncio.gather has returned in the current run
FanInDone == pc \in {"status", "done"} /\ \A w \in Workers : wpc[w] = "done"

\* C5: whatever subset of the workers fails, the fan-in happens only when every
\* launched worker has ended with an outcome, it holds each worker's own outcome
\* (the output for a worker that succeeded, None for one that failed), the
\* aggregate carries the outputs of the workers that succeeded, and no worker's
\* exception leaves the orchestrator.
C5_FanInKeepsEveryOutcome ==
    /\ FanInDone =>
          \A w \in Workers :
              /\ woutcome[w] # NoExc
              /\ results[w] = IF woutcome[w].kind = "ok" THEN Output(w, runs) ELSE NoExc
    /\ pc = "status" => FanInDone
    /\ o_returned # NoResult =>
          /\ FanInDone
          /\ o_returned.linkedin_post =
                IF woutcome["post"].kind = "ok"
                THEN Get(Output("post", runs), "content") ELSE Empty
          /\ o_returned.voice_dialog =
                IF woutcome["voice"].kind = "ok"
                THEN Get(Output("voice", runs), "dialog") ELSE Empty
          /\ o_returned.keywords =
                IF woutcome["keyword"].kind = "ok"
                THEN Get(Output("keyword", runs), "keywords") ELSE EmptyList
    /\ o_raised.by \notin Workers

C5_Witness ==
    /\ pc = "done"
    /\ o_returned # NoResult
    /\ o_raised = NoExc
    /\ IsException(woutcome["post"])
    /\ woutcome["voice"] = Output("voice", runs)
    /\ IsException(woutcome["keyword"])
    /\ o_returned.voice_dialog = Get(Output("voice", runs), "dialog")

Terminal == {"completed", "failed"}

\* C6: a new session is pending right after its creation, running once the workers
\* are launched and in a terminal status after fan-in; a stored status only moves
\* pending -> running -> completed | failed and a terminal status never changes.
C6_Lifecycle ==
    [][/\ (pc = "session" /\ pc' = "init" /\ resume_id = 0) =>
              store'[session_id'].status = "pending"
       /\ (pc' = "gather" /\ resume_id = 0) =>
              store'[session_id'].status = "running"
       /\ (pc' = "done" /\ FanInDone' /\ resume_id = 0) =>
              store'[session_id'].status \in Terminal
       /\ \A i \in SessionIds :
              store'[i].status # store[i].status =>
                  <<store[i].status, store'[i].status>> \in
                      {<<"none", "pending">>, <<"pending", "running">>,
                       <<"running", "completed">>, <<"running", "failed">>}]_vars

\* C7: when a run raises after its session exists, the session is failed with the
\* exception's message when the run exits (the error of a status write that the
\* store refused and the cancellation of the job set aside).
C7_FailedBeforeReraise ==
    (/\ pc = "done"
     /\ o_raised # NoExc
     /\ o_raised.by # "handler"
     /\ o_raised.kind # "CancelledError"
     /\ run_session # 0) =>
        /\ store[run_session].status = "failed"
        /\ store[run_session].error_message = Msg(o_raised)

\* C8: a run given the id of a session that is already completed launches no
\* worker, appends no worker action-log entry and leaves the stored row unchanged.
C8_ResumeCompletedIsNoop ==
    (pc # "idle" /\ resume_id # 0 /\ snapshot.status = "completed") =>
        /\ \A w \in Workers : wpc[w] = "idle" /\ agentLog[w] = <<>>
        /\ store[resume_id] = snapshot

\* C9: when the job is cancelled while workers are in flight, every in-flight
\* worker is cancelled and the session ends failed.
C9_CancelReachesTerminal ==
    (pc = "done" /\ o_raised.kind = "CancelledError") =>
        /\ \A w \in Workers : wpc[w] \in {"done", "cancelled"}
        /\ run_session # 0 => store[run_session].status = "failed"

\* C10: a stored session's completed_at is set if and only if its status is
\* completed or failed.
C10_CompletedAtIffTerminal ==
    \A i \in SessionIds :
        store[i].status # "none" =>
            ((store[i].completed_at # NoTime) <=> (store[i].status \in Terminal))

\* the completed/failed status calls the current run has issued for its session
TerminalCalls ==
    SelectSeq(statusLog, LAMBDA c : c.id = run_session /\ c.status \in Terminal)

\* C11: a run whose session exists issues at most one terminal status write
\* (completed or failed) for that session and has issued exactly one when it ends;
\* a session whose stored status is completed is never written as failed.
C11_OneTerminalWrite ==
    [][/\ run_session' # 0 => Len(TerminalCalls') <= 1
       /\ (pc' = "done" /\ run_session' # 0) => Len(TerminalCalls') = 1
       /\ \A i \in SessionIds :
              store[i].status = "completed" => store'[i].status # "failed"]_vars

\* C12: every result a run returns to its caller carries the session id and a
\* status field that is completed or failed, whatever subset of workers failed.
C12_ResultHasStatus ==
    o_returned # NoResult =>
        /\ "session_id" \in DOMAIN o_returned
        /\ o_returned.session_id # 0
        /\ "status" \in DOMAIN o_returned
        /\ o_returned.status \in Terminal

\* C13: when create_session_record raises in a run without a resume id, the run
\* raises that very exception, no worker is launched and the run leaves no session
\* record completed.
C13_CreateFailurePropagates ==
    [][(pc = "session" /\ resume_id = 0 /\ pc' = "done") =>
          /\ o_raised' = Exc("CreateError", "master", runs)
          /\ \A w \in Workers : wpc'[w] = "idle"
          /\ \A i \in SessionIds :
                 store'[i].status = "completed" => store[i].status = "completed"]_vars

\* the aggregate as a function of the per-worker outcomes alone
AggregateOf(sid, outcomes) ==
    Aggregate(sid, [w \in Workers |-> FanInResult(outcomes[w])])

\* C14: the aggregate a run returns is determined by the per-worker outcomes
\* whatever the order in which the workers completed: each result field is empty
\* or the output of the one worker the field belongs to.
C14_AggregateIgnoresOrder ==
    o_returned # NoResult =>
        /\ Len(doneOrder) = Cardinality(Workers)
        /\ o_returned = AggregateOf(session_id, woutcome)
        /\ o_returned.linkedin_post.by \in {"post", "none"}
        /\ o_returned.voice_dialog.by \in {"voice", "none"}
        /\ o_returned.keywords.by \in {"keyword", "none"}
        /\ o_returned.hashtags.by \in {"keyword", "none"}

C14_Witness ==
    /\ o_returned # NoResult
    /\ doneOrder = <<"keyword", "voice", "post">>
    /\ woutcome["voice"] = Output("voice", runs)
    /\ woutcome["keyword"] = Output("keyword", runs)
    /\ o_returned.voice_dialog = Get(Output("voice", runs), "dialog")
    /\ o_returned.keywords = Get(Output("keyword", runs), "keywords")

\* C15: the delay computed before jitter after the 0-indexed attempt k is
\* min(base_delay * exponential_base^k, max_delay) (8 seconds for base_delay 1,
\* exponential_base 2, max_delay 60 and k = 3); the delay d passed to sleep is that
\* value u without jitter and satisfies u/2 <= d <= u with jitter, so that no
\* delay exceeds max_delay.
C15_DelayBounds ==
    /\ \A i \in 1..Len(delayLog) :
          LET k == i - 1
              raw == base_delay * exponential_base^k
          IN /\ delayLog[i] = IF raw <= max_delay THEN raw ELSE max_delay
             /\ delayLog[i] <= max_delay
    /\ (base_delay = 1 /\ exponential_base = 2 /\ max_delay = 60 /\ Len(delayLog) >= 4)
          => delayLog[4] = 8
    /\ rpc = "sleep" =>
          LET u == Last(delayLog) IN
             /\ Len(delayLog) = attempt + 1
             /\ jitter => (u * Unit <= 2 * delay /\ delay <= u * Unit)
             /\ ~jitter => delay = u * Unit
             /\ delay <= max_delay * Unit

C15_Witness ==
    /\ rpc = "sleep"
    /\ base_delay = 1 /\ exponential_base = 2 /\ max_delay = 60
    /\ jitter
    /\ attempt = 3
    /\ delayLog = <<1, 2, 4, 8>>
    /\ 8 * Unit < 2 * delay
    /\ delay < 8 * Unit

\* a delay capped by max_delay
C15_WitnessCapped ==
    /\ rpc = "sleep"
    /\ max_delay = 4
    /\ base_delay * exponential_base^attempt > max_delay
    /\ Last(delayLog) = max_delay

Ended == {"returned", "raised"}

\* C16: given the same arguments and the same per-attempt outcomes of the wrapped
\* operation, retry_sync_with_backoff and retry_with_backoff make the same number
\* of attempts, compute the same delays before jitter and end the same way: both
\* return the operation's result or both raise the same exception.
C16_SyncAsyncAgree ==
    sync_rpc # "idle" =>
        /\ \A i \in 1..Min(Len(sync_delayLog), Len(delayLog)) :
               sync_delayLog[i] = delayLog[i]
        /\ sync_rpc \in Ended =>
               /\ Len(sync_callLog) = Len(callLog)
               /\ rpc = sync_rpc
               /\ r_raised = sync_raised
               /\ delayLog = sync_delayLog
        /\ (rpc \in Ended /\ Len(sync_callLog) = Len(callLog)) =>
               /\ sync_rpc = rpc
               /\ sync_raised = r_raised
               /\ sync_delayLog = delayLog

C16_Witness ==
    /\ rpc = "raised" /\ sync_rpc = "raised"
    /\ max_retries = 2
    /\ Len(callLog) = 3 /\ sync_callLog = callLog
    /\ callLog[1] # callLog[3]
    /\ r_raised = Exc(callLog[3], "func", 3) /\ sync_raised = r_raised
    /\ Len(delayLog) = 2 /\ sync_delayLog = delayLog
    /\ sync_delay # delay

\* both wrappers return after a retry
C16_WitnessReturned ==
    /\ rpc = "returned" /\ sync_rpc = "returned"
    /\ Len(callLog) = 2 /\ sync_callLog = callLog
    /\ Len(delayLog) = 1 /\ sync_delayLog = delayLog

\* more than recovery_timeout has elapsed since last_failure_time
TimeoutElapsed == last_failure_time # NoTime /\ now - last_failure_time > recovery_timeout

ProbeInFlight == state = "HALF_OPEN" /\ \E c \in inflight : c.at = "HALF_OPEN"

\* C18: (breakers with failure_threshold >= 1) once the recovery timeout has
\* elapsed in OPEN, one call is admitted as the HALF_OPEN probe, and while that
\* probe is in flight every other call through the breaker is rejected with the
\* circuit-open error without invoking its operation.
C18_SingleProbe ==
    [][(failure_threshold >= 1 /\ ProbeInFlight /\ attempts' = attempts + 1) =>
          /\ rejected' = rejected + 1
          /\ invocations' = invocations
          /\ inflight' = inflight]_vars

\* the number of recorded failures since the last recorded success
RECURSIVE FailsSinceOk(_)
FailsSinceOk(h) ==
    IF h = <<>> \/ Last(h) = "ok" THEN 0
    ELSE (IF Last(h) = "fail" THEN 1 ELSE 0) + FailsSinceOk(SubSeq(h, 1, Len(h) - 1))

\* C19: when calls that overlap in time fail with expected_exception, each
\* failure adds exactly one to failure_count (none is counted twice, none is
\* lost), and after each of them the state is the one failure_count determines:
\* OPEN when it has reached failure_threshold, CLOSED otherwise.
C19_FailuresCountedOnce ==
    [][/\ failure_count' = FailsSinceOk(hist')
       /\ hist' = Append(hist, "fail") =>
              /\ failure_count' = failure_count + 1
              /\ state' = IF failure_count' >= failure_threshold THEN "OPEN" ELSE "CLOSED"]_vars

\* two calls admitted together while CLOSED have both failed
C19_Witness ==
    /\ failure_threshold = 1
    /\ now = 0
    /\ hist = <<"fail", "fail">>
    /\ invocations = 2
    /\ inflight = {}
    /\ failure_count = 2
    /\ state = "OPEN"

\* C20: a call rejected because the breaker is OPEN and the recovery timeout has
\* not elapsed changes nothing: failure_count, state and last_failure_time keep
\* their values and the operation is not invoked.
C20_RejectionHasNoEffect ==
    [][(state = "OPEN" /\ ~TimeoutElapsed /\ attempts' = attempts + 1) =>
          /\ rejected' = rejected + 1
          /\ failure_count' = failure_count
          /\ state' = state
          /\ last_failure_time' = last_failure_time
          /\ invocations' = invocations
          /\ inflight' = inflight
          /\ hist' = hist]_vars

C20_Witness ==
    /\ state = "OPEN"
    /\ failure_threshold = 2
    /\ recovery_timeout = 2
    /\ hist = <<"fail", "fail">>
    /\ failure_count = 2
    /\ last_failure_time = 0
    /\ now = 1
    /\ rejected = 2
    /\ invocations = 2

\* C21: no breaker with a non-positive failure_threshold exists: the constructor
\* rejects it, so no call is ever made through such a breaker.
C21_ThresholdPositive ==
    attempts >= 1 => failure_threshold >= 1

\* the error kinds the specification classifies as retryable (network, timeout,
\* 5xx) and as non-retryable (malformed request, auth failure, client not
\* initialized)
RetryableKinds == {"ServerError"}
NonRetryableKinds == {"AuthError", "BadRequest", ClientNotInitialized}

\* C22: one call_openrouter call whose requests all fail with a retryable error
\* sends at most max_retries + 1 requests in total.
C22_SingleRetryLayer ==
    (npc \notin {"idle", "returned"} /\ failureKinds \subseteq RetryableKinds) =>
        requests <= config_max_retries + 1

\* C23: a store write that fails does not make a worker whose unit of work
\* succeeded fail, nor the job once every worker has ended: the worker still ends
\* with its output and the job still returns its aggregate result.
C23_StoreFailureTolerated ==
    [][/\ \A w \in Workers :
              (pc' = "gather" /\ wpc[w] = "complete" /\ wpc'[w] # "complete") =>
                  /\ wpc'[w] = "done"
                  /\ woutcome'[w] = Output(w, runs)
       /\ (pc = "status" /\ pc' = "done") =>
              /\ o_raised' = NoExc
              /\ o_returned' = Aggregate(session_id, results)]_vars

\* the session the current run created or was asked to resume (0 when it has none)
OwnSession == IF resume_id # 0 THEN resume_id ELSE run_session

\* C24: every status write of a run goes to the session the run created or was
\* asked to resume; a run whose session creation failed issues no status write,
\* whatever the orchestrator instance did in an earlier run.
C24_WritesOnlyOwnSession ==
    \A i \in 1..Len(statusLog) : statusLog[i].id = OwnSession

\* the unit of work of worker w (its execute) has ended
WorkEnded(w) == woutcome[w].kind \in {"ok", "WorkError", "ValueError"}
CompletionEntries == {"execute_complete", "execute_failed"}
Entries(w) == {agentLog[w][i] : i \in 1..Len(agentLog[w])}

\* C25: in every worker the start entry is in the action log before the unit of
\* work begins and is the first entry of a worker whose unit of work ran; a
\* completion entry (execute_complete or execute_failed) is in the log only once
\* the unit of work is over.
C25_LogBracketsWork ==
    \A w \in Workers :
        /\ wpc[w] \in {"work", "complete"} => agentLog[w] = <<"execute_start">>
        /\ WorkEnded(w) => agentLog[w] # <<>> /\ agentLog[w][1] = "execute_start"
        /\ Entries(w) \cap CompletionEntries # {} => wpc[w] = "done"
        /\ \A i \in 2..Len(agentLog[w]) : agentLog[w][i] \in CompletionEntries

C25_Witness ==
    /\ wpc["voice"] = "done"
    /\ woutcome["voice"] = Output("voice", runs)
    /\ agentLog["voice"] = <<"execute_start", "execute_complete">>
    /\ wpc["keyword"] = "work"
    /\ agentLog["keyword"] = <<"execute_start">>
    /\ wpc["post"] = "done"
    /\ agentLog["post"] = <<"execute_start", "execute_failed">>

\* C26: a worker that has appended its start entry appends exactly one completion
\* entry when its unit of work is over (the cancellation of the job set aside):
\* execute_complete when the work returned, and the worker returns the output;
\* execute_failed when it raised, and the worker re-raises that error.
C26_OneCompletionEntry ==
    [][\A w \in Workers :
          (pc' = "gather" /\ agentLog[w] = <<"execute_start">> /\ wpc'[w] # wpc[w]) =>
              /\ wpc[w] = "complete" =>
                    /\ wpc'[w] = "done"
                    /\ agentLog'[w] = <<"execute_start", "execute_complete">>
                    /\ woutcome'[w] = Output(w, runs)
              /\ wpc[w] = "failed" =>
                    /\ wpc'[w] = "done"
                    /\ agentLog'[w] = <<"execute_start", "execute_failed">>
                    /\ woutcome'[w] = woutcome[w]]_vars

\* the workers whose coroutine ended with an exception
FailedWorkers == {w \in Workers : IsException(woutcome[w])}

\* C27: when a run whose session exists returns after some workers failed and the
\* others succeeded, the session is stored as completed and the aggregate holds
\* the placeholder ("" or []) in exactly the failed workers' fields and the other
\* workers' outputs; after the fan-in only a refused status write makes the run
\* raise.
C27_PartialFailureCompletes ==
    /\ (o_returned # NoResult /\ run_session # 0) =>
          /\ store[session_id].status = "completed"
          /\ (o_returned.linkedin_post = Empty) <=> ("post" \in FailedWorkers)
          /\ (o_returned.voice_dialog = Empty) <=> ("voice" \in FailedWorkers)
          /\ (o_returned.keywords = EmptyList) <=> ("keyword" \in FailedWorkers)
          /\ (o_returned.hashtags = EmptyList) <=> ("keyword" \in FailedWorkers)
          /\ "post" \notin FailedWorkers =>
                o_returned.linkedin_post = Get(Output("post", runs), "content")
          /\ "voice" \notin FailedWorkers =>
                o_returned.voice_dialog = Get(Output("voice", runs), "dialog")
          /\ "keyword" \notin FailedWorkers =>
                /\ o_returned.keywords = Get(Output("keyword", runs), "keywords")
                /\ o_returned.hashtags = Get(Output("keyword", runs), "hashtags")
    /\ (pc = "done" /\ FanInDone /\ o_raised # NoExc) => o_raised.kind = "StoreError"

C27_Witness ==
    /\ pc = "done"
    /\ run_session # 0
    /\ FailedWorkers = {"post"}
    /\ store[session_id].status = "completed"
    /\ o_returned.linkedin_post = Empty
    /\ o_returned.voice_dialog = Get(Output("voice", runs), "dialog")
    /\ o_returned.keywords = Get(Output("keyword", runs), "keywords")
    /\ o_returned.hashtags = Get(Output("keyword", runs), "hashtags")

\* C28: once a remote call has failed with a non-retryable kind (malformed
\* request, auth failure, client not initialized) it is not attempted again: no
\* further run of the call body and no further request follows.
C28_NonRetryableOnce ==
    [][(failureKinds \cap NonRetryableKinds # {}) =>
          /\ bodies' = bodies
          /\ requests' = requests]_vars

\* the sub-agents whose input lacks a key their validation requires
LackingInput == {w \in Workers : MissingKeys(w) # {}}
InputError(w) == Exc("ValueError", w, runs)

\* C29: a worker whose input lacks a required field never succeeds and makes no
\* remote call; when its unit of work runs it ends at once with a ValueError that
\* names the missing keys, the work is not run again in that run, and the fan-in
\* records the worker as failed.
C29_InputErrorBeforeRemoteCall ==
    /\ [](\A w \in LackingInput :
            /\ wcalls[w] = 0
            /\ woutcome[w].kind # "ok"
            /\ woutcome[w].kind = "ValueError" =>
                  (woutcome[w] = InputError(w) /\ missing_keys[w] = MissingKeys(w))
            /\ FanInDone => (IsException(woutcome[w]) /\ results[w] = NoExc))
    /\ [][\A w \in LackingInput :
            /\ (pc' = "gather" /\ wpc[w] = "work" /\ wpc'[w] # "work") =>
                  /\ wpc'[w] = "failed"
                  /\ woutcome'[w] = InputError(w)
                  /\ missing_keys'[w] = MissingKeys(w)
                  /\ wcalls'[w] = 0
            /\ (runs' = runs /\ wpc[w] \in {"failed", "done"}) => wpc'[w] # "work"]_vars

C29_Witness ==
    /\ FanInDone
    /\ "post" \in LackingInput
    /\ woutcome["post"] = InputError("post")
    /\ missing_keys["post"] = {"keywords"}
    /\ wcalls["post"] = 0
    /\ wcalls["voice"] = 2
    /\ results["post"] = NoExc

\* C30: every launched worker's input holds every key its validation requires,
\* and when no remote call and no store write of a run failed, every worker's
\* result at the fan-in is its output.
C30_InputsCoverValidation ==
    /\ \A w \in Workers : wpc[w] # "idle" => RequiredKeys(w) \subseteq InputKeys(w)
    /\ (FanInDone /\ \A w \in Workers : woutcome[w].kind \notin {"WorkError", "StoreError"}) =>
          \A w \in Workers : results[w] = Output(w, runs)

\* the current run was asked to resume an id that has no session record
ResumesMissingSession == pc \notin {"off", "idle"} /\ resume_id # 0 /\ run_session = 0

\* C31: a run asked to resume an id without a session record launches no worker,
\* appends no action-log entry, and ends by raising to the caller.
C31_ResumeMissingFails ==
    ResumesMissingSession =>
        /\ \A w \in Workers : wpc[w] = "idle" /\ agentLog[w] = <<>>
        /\ pc = "done" => (o_raised # NoExc /\ o_returned = NoResult)

\* C32: a breaker constructed with failure_threshold >= 1 leaves OPEN only to
\* HALF_OPEN, and only when the recovery timeout has elapsed since the last
\* failure; no step takes it from OPEN to CLOSED.
C32_OpenLeavesOnlyToHalfOpen ==
    [][(failure_threshold >= 1 /\ state = "OPEN" /\ state' # "OPEN") =>
          (state' = "HALF_OPEN" /\ TimeoutElapsed)]_vars

\* C33: for failure_threshold >= 1, CLOSED implies failure_count < failure_threshold,
\* and OPEN or HALF_OPEN implies failure_count >= failure_threshold with
\* last_failure_time set.
C33_StateMatchesCount ==
    failure_threshold >= 1 =>
        /\ state = "CLOSED" => failure_count < failure_threshold
        /\ state \in {"OPEN", "HALF_OPEN"} =>
              (failure_count >= failure_threshold /\ last_failure_time # NoTime)

\* calls overlap: the breaker was opened and closed again by a call admitted
\* earlier, and stands open again with another call in flight
C33_Witness ==
    /\ failure_threshold >= 1
    /\ state = "OPEN"
    /\ failure_count = failure_threshold
    /\ inflight # {}
    /\ \E i \in 1..Len(hist) : hist[i] = "ok" /\ i > failure_threshold

\* C34: when the operation of an admitted call (admitted in CLOSED or HALF_OPEN)
\* raises an exception that does not match expected_exception, the exception
\* reaches the caller and failure_count, last_failure_time and state stay as
\* they were.
C34_UnexpectedExceptionNoEffect ==
    [][\A c \in inflight :
          (c \notin inflight' /\ hist' = Append(hist, "other")) =>
              /\ c.at \in {"CLOSED", "HALF_OPEN"}
              /\ failure_count' = failure_count
              /\ last_failure_time' = last_failure_time
              /\ state' = state]_vars

C34_Witness ==
    /\ Len(hist) >= 3
    /\ Last(hist) = "other"
    /\ hist[1] = "other"
    /\ state = "HALF_OPEN"
    /\ failure_count >= 1
    /\ inflight = {}

\* C35: the wrapper waits exactly once between consecutive attempts and nowhere
\* else: the i-th wait follows the i-th attempt, before an attempt as many waits
\* as attempts have been made, a wrapped call that has ended after n attempts
\* made n-1 waits, and a successful attempt is the last one.
C35_WaitsBetweenAttempts ==
    rpc # "idle" =>
        /\ \A i \in 1..Len(sleepLog) : sleepLog[i] = i - 1
        /\ rpc = "try" => Len(sleepLog) = Len(callLog)
        /\ rpc = "sleep" => Len(sleepLog) = Len(callLog) - 1
        /\ rpc \in Ended => Len(sleepLog) = Len(callLog) - 1
        /\ \A i \in 1..Len(callLog) :
              callLog[i] = "ok" => (i = Len(callLog) /\ rpc = "returned")

C35_Witness ==
    /\ rpc = "returned"
    /\ max_retries = 4
    /\ Len(callLog) = 3
    /\ callLog[3] = "ok"
    /\ sleepLog = <<0, 1>>

\* sub-agent w's coroutine has been launched and has not ended
Unfinished(w) == pc = "gather" /\ wpc[w] \in {"start", "work", "complete", "failed"}

\* C36: while a worker is suspended in its unit of work (in a remote call or in a
\* backoff delay of the retry wrapper), every other worker that has not ended
\* can take its next step.
C36_WaitDoesNotBlockOthers ==
    \A w \in Workers :
        (pc = "gather" /\ wpc[w] = "work" /\ ValidInput(w)) =>
            \A v \in Workers \ {w} :
                Unfinished(v) => ENABLED (WorkerStep(v) /\ UNCHANGED <<rvars, bvars, nvars, cvars>>)

\* the other workers completed while the voice worker is still suspended
C36_Witness ==
    /\ pc = "gather"
    /\ wpc["voice"] = "work"
    /\ wpc["keyword"] = "done"
    /\ woutcome["keyword"] = Output("keyword", runs)
    /\ wpc["post"] = "done"

\* C37: once the async context of the agent (and with it of its client) has been
\* exited, the agent's openrouter attribute and the client's session attribute
\* are None.
C37_HandlesClearedOnExit ==
    ctx = "exited" => (~openrouter /\ client_session = "None")

\* the step is a receive_messages(a) call
IsReceive(a) == receives' = receives + 1 /\ c_returned'.arg = a
\* what a receive_messages call that returned the messages `got` (by identity) to
\* agent a must satisfy apart from completeness: only messages addressed to a, in
\* send order, each now marked received and returned for the first time
ReceivedWell(a, got) ==
    /\ \A i \in 1..Len(got) : sentLog[got[i]].to_agent = a
    /\ \A i \in 1..Len(got), j \in 1..Len(got) : i < j => got[i] < got[j]
    /\ \A i \in 1..Len(got) : times_returned'[got[i]] = 1
    /\ \A k \in 1..Len(message_queue') :
          message_queue'[k].seq \in {got[i] : i \in 1..Len(got)} =>
              message_queue'[k].status = "received"
\* no message has been returned twice, and the statistics add up
OnceAndCounted ==
    /\ \A n \in 1..MaxSends : times_returned'[n] <= 1
    /\ c_returned'.op = "get_message_stats" =>
          c_returned'.value.total = c_returned'.value.sent + c_returned'.value.received

\* C38 as stated: every receive_messages(a) call returns every message sent to a
\* that no earlier call returned, and only messages addressed to a, in send order,
\* marking them received; no message is returned twice; get_message_stats reports
\* total = sent + received.
C38_DeliveredExactlyOnce ==
    [][/\ \A a \in Agents : IsReceive(a) =>
             /\ \A n \in 1..Len(sentLog) :
                   (sentLog[n].to_agent = a /\ times_returned[n] = 0) =>
                       \E i \in 1..Len(c_returned'.value) : c_returned'.value[i] = n
             /\ ReceivedWell(a, c_returned'.value)
       /\ OnceAndCounted]_vars

\* C38 amended: the same for every message that clear_messages has not removed
\* from the queue; a removed message is returned by no later call.
C38_DeliveredUnlessCleared ==
    [][/\ \A a \in Agents : IsReceive(a) =>
             /\ \A n \in 1..Len(sentLog) :
                   (sentLog[n].to_agent = a /\ times_returned[n] = 0) =>
                       (n \notin cleared <=>
                           \E i \in 1..Len(c_returned'.value) : c_returned'.value[i] = n)
             /\ ReceivedWell(a, c_returned'.value)
       /\ OnceAndCounted]_vars

\* a second receive_messages("a") returns only the message sent since the first
C38_Witness ==
    /\ receives = 2
    /\ c_returned = Returned("receive_messages", "a", <<2>>)
    /\ Len(sentLog) = 2
    /\ sentLog[1].to_agent = "a" /\ sentLog[2].to_agent = "a"
    /\ times_returned[1] = 1 /\ times_returned[2] = 1
    /\ cleared = {}
    /\ GetMessageStats(message_queue) = [total |-> 2, sent |-> 0, received |-> 2, pending |-> 0]

\* C39: the messages of the queue have distinct ids, and get_message_by_id called
\* with the id a send_message call returned gives the message that call queued,
\* as long as the message is in the queue.
C39_IdsDistinct ==
    /\ \A i \in 1..Len(message_queue), j \in 1..Len(message_queue) :
          i # j => message_queue[i].id # message_queue[j].id
    /\ (c_returned.op = "get_message_by_id" /\ c_returned.arg \in Seqs(message_queue)) =>
          c_returned.value.seq = c_returned.arg

====
